---- MODULE Spec2Model ----
(***************************************************************************)
(* A model of guillemot: the TOPAS tools (save_topas_inp,                  *)
(* run_topas_refinement), the conversation history and the chat loop.      *)
(* Text is modelled as TLA+ strings, handled character by character with   *)
(* Len, SubSeq and \o, so that substring tests, replacements and pattern   *)
(* searches are computed as the Python code computes them.                 *)
(***************************************************************************)
EXTENDS Integers, Sequences, FiniteSets, TLC

VARIABLES
    fs,         \* the file system: path |-> content of every regular file
    dirs,       \* the directories that exist
    saveCall,   \* the last save_topas_inp call: its arguments and how it ended
    runCall,    \* the last run_topas_refinement call: its arguments and how it ended
    messages,   \* conversation_history.messages
    now,        \* the clock read by add_message (datetime.now())
    pc,         \* where chat_loop stands
    turn,       \* the turn in progress or just finished: what was read and done
    inflight,   \* the messages handed to agent.run that have not come back
    turns,      \* the number of input() calls made so far
    recent,     \* the last get_recent_messages call: its limit and its result
    cifCall,    \* the get_optimade_cifs call: its arguments and how it ended
    sanitized,  \* a formula and what _sanitize_formula makes of it
    plotFiles,  \* what the plot functions meet on disk: the two tables they read,
                \* and what becomes of the image path they save to
    plotCall,   \* the last plot call: its arguments, what it drew and how it ended
    figures     \* the number of figures open in matplotlib.pyplot

vars == <<fs, dirs, saveCall, runCall, messages, now, pc, turn, inflight, turns, recent,
          cifCall, sanitized, plotFiles, plotCall, figures>>

topasVars == <<fs, dirs, saveCall, runCall>>
chatVars == <<messages, now, pc, turn, inflight, turns>>
optimadeVars == <<cifCall, sanitized>>
plotVars == <<plotFiles, plotCall, figures>>

(***************************************************************************)
(* Optional values (Python's None): the empty tuple, or a one-tuple.       *)
(***************************************************************************)
None == <<>>
Some(v) == <<v>>

\* the element of a one-element set (used to name a value computed once)
TheOne(S) == CHOOSE x \in S : TRUE

(***************************************************************************)
(* Python string operations.                                               *)
(***************************************************************************)
Char(s, i) == SubSeq(s, i, i)

\* sub in s
Contains(s, sub) ==
    \E i \in 1..(Len(s) - Len(sub) + 1) : SubSeq(s, i, i + Len(sub) - 1) = sub

StartsWith(s, p) == Len(p) <= Len(s) /\ SubSeq(s, 1, Len(p)) = p

EndsWith(s, p) == Len(p) <= Len(s) /\ SubSeq(s, Len(s) - Len(p) + 1, Len(s)) = p

\* s.find(sub): the first index (1-based) at which sub occurs in s, 0 if none
Find(s, sub) ==
    TheOne({IF hits = {} THEN 0 ELSE CHOOSE i \in hits : \A j \in hits : i <= j :
               hits \in {{i \in 1..(Len(s) - Len(sub) + 1) : SubSeq(s, i, i + Len(sub) - 1) = sub}}})

\* s.rfind(c): the last index (1-based) at which the character set member occurs, 0 if none
RFindAny(s, cs) ==
    LET hits == {i \in 1..Len(s) : Char(s, i) \in cs}
    IN  IF hits = {} THEN 0 ELSE CHOOSE i \in hits : \A j \in hits : j <= i

\* s.replace(old, new), old non-empty: every non-overlapping occurrence, left to right
RECURSIVE Replace(_, _, _)
Replace(s, old, new) ==
    TheOne({IF i = 0
            THEN s
            ELSE SubSeq(s, 1, i - 1) \o new \o Replace(SubSeq(s, i + Len(old), Len(s)), old, new) :
               i \in {Find(s, old)}})

\* len(s.splitlines()) for text whose only line break is "\n"
RECURSIVE line_count(_)
line_count(s) ==
    TheOne({IF s = "" THEN 0
            ELSE IF i = 0 THEN 1
            ELSE 1 + line_count(SubSeq(s, i + 1, Len(s))) :
               i \in {Find(s, "\n")}})

(***************************************************************************)
(* os.path                                                                 *)
(***************************************************************************)
Sep == "/"

\* os.path.splitext(p): <<root, ext>>; the extension starts at the last dot of
\* the last path component, leading dots of that component not counted
splitext(p) ==
    LET sepIndex == RFindAny(p, {Sep})
        dotIndex == RFindAny(p, {"."})
        named == \E k \in (sepIndex + 1)..(dotIndex - 1) : Char(p, k) # "."
    IN  IF dotIndex > sepIndex /\ named
        THEN <<SubSeq(p, 1, dotIndex - 1), SubSeq(p, dotIndex, Len(p))>>
        ELSE <<p, "">>

\* os.path.join(a, p)
join(a, p) ==
    IF StartsWith(p, Sep) THEN p
    ELSE IF a = "" \/ EndsWith(a, Sep) THEN a \o p
    ELSE a \o Sep \o p

\* str(pathlib.Path(p)): repeated separators collapsed, "." components and a
\* trailing separator dropped
RECURSIVE PathParts(_)
PathParts(p) ==
    LET i == Find(p, Sep)
    IN  IF i = 0 THEN <<p>> ELSE <<SubSeq(p, 1, i - 1)>> \o PathParts(SubSeq(p, i + 1, Len(p)))

RECURSIVE JoinParts(_)
JoinParts(ps) ==
    IF ps = <<>> THEN ""
    ELSE IF Len(ps) = 1 THEN ps[1]
    ELSE ps[1] \o Sep \o JoinParts(Tail(ps))

PathStr(p) ==
    LET ps == PathParts(p)
        kept == SelectSeq(ps, LAMBDA c : c # "" /\ c # ".")
        body == JoinParts(kept)
    IN  IF StartsWith(p, Sep \o Sep) /\ ~StartsWith(p, Sep \o Sep \o Sep) THEN Sep \o Sep \o body
        ELSE IF StartsWith(p, Sep) THEN Sep \o body
        ELSE IF kept = <<>> THEN "."
        ELSE body

\* The place a path names when open() follows it (no symbolic links, every
\* directory on the way exists): empty and "." components dropped, each ".."
\* taking back the component before it. fs holds a file under the path it was
\* opened with; two paths name the same file when they resolve alike.
resolve(p) ==
    LET RECURSIVE Walk(_, _)
        Walk(parts, kept) ==
            IF parts = <<>> THEN kept
            ELSE Walk(Tail(parts),
                      CASE Head(parts) \in {"", "."} -> kept
                        [] Head(parts) = ".." ->
                             IF kept # <<>> /\ kept[Len(kept)] # ".."
                             THEN SubSeq(kept, 1, Len(kept) - 1)
                             ELSE IF StartsWith(p, Sep) THEN kept ELSE Append(kept, "..")
                        [] OTHER -> Append(kept, Head(parts)))
    IN  (IF StartsWith(p, Sep) THEN Sep ELSE "") \o JoinParts(Walk(PathParts(p), <<>>))

isfile(files, p) == p \in DOMAIN files

WriteFile(files, p, text) == [q \in DOMAIN files \cup {p} |-> IF q = p THEN text ELSE files[q]]

(***************************************************************************)
(* tools/topas.py: save_topas_inp                                          *)
(***************************************************************************)
RUN_DIR == "run_dir"

NoSave ==
    [filename |-> "", inp_text |-> "", outcome |-> "none", message |-> "",
     inp_path |-> "", line_count |-> 0]

basename(filename) == splitext(filename)[1]

output_macro_text(base) == "Out_X_Yobs_Ycalc(\"" \o base \o "_output.txt\")"

macro_missing_m(inp_text, macro) == inp_text # macro

macro_missing(inp_text, macro) == ~Contains(inp_text, macro)

save_topas_inp(filename, inp_text) ==
    \E base \in {basename(filename)} :
    \E inp_path \in {join(RUN_DIR, base \o ".inp")},
       macro \in {output_macro_text(base)} :
        /\ dirs' = dirs \cup {RUN_DIR}
        /\ IF macro_missing(inp_text, macro)
           THEN /\ fs' = fs
                /\ saveCall' = [filename |-> filename, inp_text |-> inp_text,
                                outcome |-> "ModelRetry",
                                message |-> "input file doesn't contain the correct output macro: "
                                            \o macro \o ". Please try again.",
                                inp_path |-> "", line_count |-> 0]
           ELSE /\ fs' = WriteFile(fs, inp_path, inp_text)
                /\ saveCall' = [filename |-> filename, inp_text |-> inp_text,
                                outcome |-> "returned", message |-> "",
                                inp_path |-> inp_path, line_count |-> line_count(inp_text)]

(***************************************************************************)
(* tools/topas.py: run_topas_refinement                                    *)
(***************************************************************************)
NoRun ==
    [inp_path |-> "", proc |-> "none", returncode |-> 0, stdout |-> "", stderr |-> "",
     outcome |-> "none", message |-> "", status |-> "", plot_invoked |-> FALSE,
     probed |-> <<>>, result |-> None]

\* The files TOPAS itself may leave beside its input file: the log, the table
\* the Out_X_Yobs_Ycalc macro names and the reflection list.
TopasOutputs(inp_path) ==
    LET stem == IF EndsWith(inp_path, ".inp")
                THEN SubSeq(inp_path, 1, Len(inp_path) - 4)
                ELSE inp_path
    IN  {stem \o ".out", stem \o "_output.txt", stem \o "_hkl.txt"}

\* subprocess.run(...): the process exits with a return code and its captured
\* output, or the wall-clock timeout expires (TimeoutExpired); either way it may
\* have left some of its output files behind.
Completed(returncode, stdout, stderr) ==
    [kind |-> "exited", returncode |-> returncode, stdout |-> stdout, stderr |-> stderr]

TimeoutExpired == [kind |-> "TimeoutExpired", returncode |-> 0, stdout |-> "", stderr |-> ""]

status_of_m(proc) ==
    IF proc.kind = "exited" THEN "success" ELSE "timeout"

status_of(proc) ==
    IF proc.kind = "exited"
    THEN (IF proc.returncode = 0 THEN "success" ELSE "failure")
    ELSE "timeout"

failure_message(proc) ==
    "TOPAS perhaps returned an error. stdout: " \o proc.stdout \o ", " \o proc.stderr

\* plot_refinement_results(output_file, save_path, hkl_file): the plotting layer
\* saves the image and returns its path with the in-memory payload, which is
\* null when the image cannot be loaded back.
plot_refinement_results(output_file, save_path, hkl_file, image) ==
    [output_filepath |-> save_path, output_image |-> image]

run_topas_refinement(inp_path, proc, produced, image) ==
    \E disk \in {[q \in DOMAIN fs \cup produced |-> IF q \in produced THEN "topas" ELSE fs[q]]},
       status \in {status_of(proc)},
       \* the local variable result: bound only when subprocess.run returned
       result \in {IF proc.kind = "exited" THEN Some(proc) ELSE None},
       out_probe \in {PathStr(Replace(inp_path, ".inp", ".out"))},
       table_probe \in {Replace(inp_path, ".inp", "_output.txt")},
       hkl_probe \in {Replace(inp_path, ".inp", "_hkl.txt")} :
    \E save_path \in {Replace(table_probe, "_output.txt", "_plot.png")},
       plotted \in {isfile(disk, table_probe)} :
    LET outfile_path == IF isfile(disk, out_probe) THEN Some(out_probe) ELSE None
        outfile_contents == IF isfile(disk, out_probe) THEN Some(disk[out_probe]) ELSE None
        refinement_result_path == IF plotted THEN Some(table_probe) ELSE None
        hkl_file == IF isfile(disk, hkl_probe) THEN Some(hkl_probe) ELSE None
        plot_results == IF plotted
                        THEN Some(plot_refinement_results(table_probe, save_path, hkl_file, image))
                        ELSE None
        \* the call and the paths it probes once the failure check is passed
        call == [inp_path |-> inp_path, proc |-> proc.kind, returncode |-> proc.returncode,
                 stdout |-> proc.stdout, stderr |-> proc.stderr,
                 probed |-> IF status = "failure" THEN <<>>
                            ELSE <<out_probe, table_probe, hkl_probe>>]
    IN  /\ UNCHANGED dirs
        /\ IF status = "failure"
           THEN /\ fs' = disk
                /\ runCall' = call @@ [outcome |-> "ModelRetry",
                                       message |-> failure_message(proc),
                                       status |-> status, plot_invoked |-> FALSE,
                                       result |-> None]
           ELSE /\ fs' = IF plotted THEN WriteFile(disk, save_path, "png") ELSE disk
                /\ IF result = None
                   THEN runCall' = call @@ [outcome |-> "UnboundLocalError",
                                            message |-> "result",
                                            status |-> status, plot_invoked |-> plotted,
                                            result |-> None]
                   ELSE runCall' = call @@ [outcome |-> "returned", message |-> "",
                                            status |-> status, plot_invoked |-> plotted,
                                            result |-> Some(
                                               [status |-> status,
                                                outfile_path |-> outfile_path,
                                                outfile_contents |-> outfile_contents,
                                                refinement_result_path |-> refinement_result_path,
                                                stdout |-> result[1].stdout,
                                                stderr |-> result[1].stderr,
                                                logs_tail |-> None,
                                                plot_results |-> plot_results])]

(***************************************************************************)
(* Python text handling used by the chat loop: str.strip, str.lower and    *)
(* the two regular expressions of main.py, searched as re.search does      *)
(* (leftmost match, greedy repetition, alternatives in order).             *)
(***************************************************************************)
Whitespace == {" ", "\t", "\n", "\r"}

\* str.strip()
Strip(s) ==
    LET solid == {i \in 1..Len(s) : Char(s, i) \notin Whitespace}
    IN  IF solid = {} THEN ""
        ELSE SubSeq(s, CHOOSE i \in solid : \A j \in solid : i <= j,
                       CHOOSE i \in solid : \A j \in solid : j <= i)

Uppercase == {"A", "B", "C", "D", "E", "F", "G", "H", "I", "J", "K", "L", "M",
              "N", "O", "P", "Q", "R", "S", "T", "U", "V", "W", "X", "Y", "Z"}

LowerOf ==
    [c \in Uppercase |->
        CASE c = "A" -> "a" [] c = "B" -> "b" [] c = "C" -> "c" [] c = "D" -> "d"
          [] c = "E" -> "e" [] c = "F" -> "f" [] c = "G" -> "g" [] c = "H" -> "h"
          [] c = "I" -> "i" [] c = "J" -> "j" [] c = "K" -> "k" [] c = "L" -> "l"
          [] c = "M" -> "m" [] c = "N" -> "n" [] c = "O" -> "o" [] c = "P" -> "p"
          [] c = "Q" -> "q" [] c = "R" -> "r" [] c = "S" -> "s" [] c = "T" -> "t"
          [] c = "U" -> "u" [] c = "V" -> "v" [] c = "W" -> "w" [] c = "X" -> "x"
          [] c = "Y" -> "y" [] c = "Z" -> "z"]

\* str.lower()
RECURSIVE Lower(_)
Lower(s) ==
    IF s = "" THEN ""
    ELSE LET c == Char(s, 1)
         IN  (IF c \in Uppercase THEN LowerOf[c] ELSE c) \o Lower(SubSeq(s, 2, Len(s)))

\* the alternatives (jpg|jpeg|png|gif|bmp|webp), in the order they are tried
ImageExtensions == <<"jpg", "jpeg", "png", "gif", "bmp", "webp">>

\* text[i:] starts with lit, letters compared without case (re.IGNORECASE)
LitAt(text, i, lit) ==
    /\ i >= 1
    /\ i + Len(lit) - 1 <= Len(text)
    /\ Lower(SubSeq(text, i, i + Len(lit) - 1)) = lit

\* \.(jpg|jpeg|png|gif|bmp|webp) matched at index d: the index of the last
\* character matched, 0 when it does not match
ExtEnd(text, d) ==
    LET ok == {k \in 1..Len(ImageExtensions) : LitAt(text, d, "." \o ImageExtensions[k])}
    IN  IF ok = {} THEN 0
        ELSE d + Len(ImageExtensions[CHOOSE k \in ok : \A m \in ok : k <= m])

\* [^\s]+\.(jpg|...) matched from index b: greedy, so the last dot that is
\* followed by an extension and reached through non-space characters only;
\* the index of the last character matched, 0 when it does not match
BodyEnd(text, b) ==
    LET ends == {<<d, ExtEnd(text, d)>> :
                    d \in {e \in (b + 1)..Len(text) :
                              \A k \in b..(e - 1) : Char(text, k) \notin Whitespace}}
        hits == {p \in ends : p[2] # 0}
    IN  IF hits = {} THEN 0
        ELSE (CHOOSE p \in hits : \A q \in hits : q[1] <= p[1])[2]

\* https?://[^\s]+\.(jpg|...) matched at index i: the index of the last
\* character matched, 0 when it does not match
UrlEndAt(text, i) ==
    LET schemes == {n \in {7, 8} : LitAt(text, i, IF n = 8 THEN "https://" ELSE "http://")}
    IN  IF schemes = {} THEN 0
        ELSE BodyEnd(text, i + (CHOOSE n \in schemes : TRUE))

\* re.search(url_pattern, text, re.IGNORECASE): <<first, last>> of the match,
\* <<0, 0>> when there is none
UrlSearch(text) ==
    LET hits == {p \in {<<i, UrlEndAt(text, i)>> : i \in 1..Len(text)} : p[2] # 0}
    IN  IF hits = {} THEN <<0, 0>>
        ELSE CHOOSE p \in hits : \A q \in hits : p[1] <= q[1]

\* (?:file://)?([^\s]+\.(jpg|...)) matched at index i: <<first of group 1, last>>,
\* <<0, 0>> when it does not match; the optional prefix is tried first
FileEndAt(text, i) ==
    LET skips == {0} \cup {n \in {7} : LitAt(text, i, "file://")}
        hits == {p \in {<<i + n, BodyEnd(text, i + n)>> : n \in skips} : p[2] # 0}
    IN  IF hits = {} THEN <<0, 0>>
        ELSE CHOOSE p \in hits : \A q \in hits : q[1] <= p[1]

\* re.search(file_pattern, text, re.IGNORECASE): <<first, first of group 1, last>>
FileSearch(text) ==
    LET hits == {p \in {<<i, FileEndAt(text, i)>> : i \in 1..Len(text)} : p[2][2] # 0}
    IN  IF hits = {} THEN <<0, 0, 0>>
        ELSE LET p == CHOOSE p \in hits : \A q \in hits : p[1] <= q[1]
             IN  <<p[1], p[2][1], p[2][2]>>

is_image_url(text) == UrlSearch(text)[1] # 0

\* extract_image_url(text): <<text_without_url, image_url>>
extract_image_url(text) ==
    TheOne({IF m[1] # 0
            THEN TheOne({<<TheOne({Strip(t) : t \in {Replace(text, image_url, "")}}), image_url>> :
                            image_url \in {SubSeq(text, m[1], m[2])}})
            ELSE <<text, "">> :
                m \in {UrlSearch(text)}})

is_local_image_path(text) == FileSearch(text)[1] # 0

\* extract_local_image_path(text): <<text_without_path, image_path>>
extract_local_image_path(text) ==
    TheOne({IF m[1] # 0
            THEN TheOne({<<TheOne({Strip(t) : t \in {Replace(text, whole, "")}}),
                           Replace(SubSeq(text, m[2], m[3]), "file://", "")>> :
                            whole \in {SubSeq(text, m[1], m[3])}})
            ELSE <<text, "">> :
                m \in {FileSearch(text)}})

(***************************************************************************)
(* main.py: ConversationHistory                                            *)
(***************************************************************************)
add_message_m(msgs, role, content, has_image, timestamp) ==
    <<[role |-> role, content |-> content, has_image |-> has_image,
       timestamp |-> timestamp]>> \o msgs

add_message(msgs, role, content, has_image, timestamp) ==
    Append(msgs, [role |-> role, content |-> content, has_image |-> has_image,
                  timestamp |-> timestamp])

\* seq[start:] as Python slices a list: a negative start counts from the end,
\* and a start outside the list is clipped to it
PySliceFrom(seq, start) ==
    LET n == Len(seq)
        first == IF start < 0
                 THEN (IF n + start < 0 THEN 0 ELSE n + start)
                 ELSE (IF start > n THEN n ELSE start)
    IN  SubSeq(seq, first + 1, n)

\* self.messages[-limit:]
get_recent_messages(msgs, limit) == PySliceFrom(msgs, -limit)

RECURSIVE JoinLines(_)
JoinLines(ls) ==
    IF ls = <<>> THEN ""
    ELSE IF Len(ls) = 1 THEN ls[1]
    ELSE ls[1] \o "\n" \o JoinLines(Tail(ls))

format_message(msg) ==
    msg.role \o ": " \o msg.content \o (IF msg.has_image THEN " [included an image]" ELSE "")

get_formatted_history_m(msgs, limit) ==
    JoinLines([i \in 1..Len(msgs) |-> format_message(msgs[i])])

get_formatted_history(msgs, limit) ==
    LET recent_msgs == get_recent_messages(msgs, limit)
    IN  JoinLines([i \in 1..Len(recent_msgs) |-> format_message(recent_msgs[i])])

(***************************************************************************)
(* utils.py: load_local_image. The path names a regular readable file, or  *)
(* it is missing, not a file or unreadable.                                *)
(***************************************************************************)
DiskStates == {"file", "missing", "directory", "unreadable"}

media_type_of(extension) ==
    CASE extension = ".jpg" -> "image/jpeg"
      [] extension = ".jpeg" -> "image/jpeg"
      [] extension = ".png" -> "image/png"
      [] extension = ".gif" -> "image/gif"
      [] extension = ".bmp" -> "image/bmp"
      [] extension = ".webp" -> "image/webp"
      [] OTHER -> "image/jpeg"

load_local_image(image_path, disk) ==
    IF disk = "file"
    THEN Some([kind |-> "BinaryContent", value |-> image_path,
               media_type |-> media_type_of(Lower(splitext(image_path)[2]))])
    ELSE None

(***************************************************************************)
(* main.py: chat_loop                                                      *)
(***************************************************************************)
TextPart(text) == [kind |-> "text", value |-> text, media_type |-> ""]

ImageUrl(url) == [kind |-> "ImageUrl", value |-> url, media_type |-> ""]

DefaultPrompt == "Please analyze this image:"

\* the special commands, tried in the order of the code
command_of_m(user_input) ==
    IF user_input \in {"quit", "exit", "bye"} THEN "quit"
    ELSE IF user_input = "history" THEN "history"
    ELSE IF user_input = "clear" THEN "clear"
    ELSE IF user_input = "" THEN "empty"
    ELSE "text"

command_of(user_input) ==
    IF Lower(user_input) \in {"quit", "exit", "bye"} THEN "quit"
    ELSE IF Lower(user_input) = "history" THEN "history"
    ELSE IF Lower(user_input) = "clear" THEN "clear"
    ELSE IF user_input = "" THEN "empty"
    ELSE "text"

text_or_default(text) == IF text # "" THEN text ELSE DefaultPrompt

\* the image check of a free-text turn: the branch taken, has_image and
\* message_parts
url_parts(user_input) ==
    TheOne({[branch |-> "url", has_image |-> TRUE, image_ref |-> e[2],
             message_parts |-> <<TextPart(text_or_default(e[1])), ImageUrl(e[2])>>] :
                e \in {extract_image_url(user_input)}})

\* has_image set before the load is known to have worked
local_parts_m(user_input, disk) ==
    TheOne({[branch |-> "local", has_image |-> TRUE, image_ref |-> p[2],
             message_parts |-> <<TextPart(user_input)>>] :
                p \in {extract_local_image_path(user_input)}})

local_parts(user_input, disk) ==
    TheOne({IF image_content # None
            THEN [branch |-> "local", has_image |-> TRUE, image_ref |-> p[1][2],
                  message_parts |-> <<TextPart(text_or_default(p[1][1])), image_content[1]>>]
            ELSE [branch |-> "local", has_image |-> FALSE, image_ref |-> p[1][2],
                  message_parts |-> <<TextPart(user_input)>>] :
                <<p, image_content>> \in
                    {<<<<e>>, load_local_image(e[2], disk)>> :
                        e \in {extract_local_image_path(user_input)}}})

text_parts(user_input) ==
    [branch |-> "text", has_image |-> FALSE, image_ref |-> "",
     message_parts |-> <<TextPart(user_input)>>]

message_parts_of_m(user_input, disk) ==
    IF is_local_image_path(user_input) THEN local_parts(user_input, disk)
    ELSE IF is_image_url(user_input) THEN url_parts(user_input)
    ELSE text_parts(user_input)

message_parts_of(user_input, disk) ==
    IF is_image_url(user_input) THEN url_parts(user_input)
    ELSE IF is_local_image_path(user_input) THEN local_parts(user_input, disk)
    ELSE text_parts(user_input)

full_prompt(history_context, user_input) ==
    "\n                Recent conversation history:\n                "
    \o history_context
    \o "\n\n                Current user message: " \o user_input
    \o "\n                "

\* agent_message: the message parts as they are, or the prompt with the history
agent_message_of(has_image, message_parts, history_context, user_input) ==
    IF has_image
    THEN [kind |-> "parts", parts |-> message_parts, text |-> ""]
    ELSE [kind |-> "prompt", parts |-> <<>>, text |-> full_prompt(history_context, user_input)]

\* except KeyboardInterrupt: break / except Exception: print and go on
on_exception_m(exc) == "terminated"

on_exception(exc) == IF exc = "KeyboardInterrupt" THEN "terminated" ELSE "awaiting"

\* result = await agent.run(agent_message): the loop is suspended until the
\* agent answers or raises
start_agent_run(agent_message) ==
    /\ inflight' = Append(inflight, agent_message)
    /\ pc' = "awaiting"

await_agent_run(agent_message) ==
    /\ inflight' = Append(inflight, agent_message)
    /\ pc' = "dispatching"

(***************************************************************************)
(* tools/optimade.py: the two pure helpers.                                *)
(***************************************************************************)
Digits == "0123456789"

\* str(n) of a non-negative int, as the f-string formats it
RECURSIVE IntStr(_)
IntStr(n) ==
    IF n < 10 THEN Char(Digits, n + 1)
    ELSE IntStr(n \div 10) \o Char(Digits, (n % 10) + 1)

\* ",".join(parts)
RECURSIVE JoinCommas(_)
JoinCommas(parts) ==
    IF parts = <<>> THEN ""
    ELSE IF Len(parts) = 1 THEN parts[1]
    ELSE parts[1] \o "," \o JoinCommas(Tail(parts))

\* the single-element form is missing: every list takes the HAS ALL form
_create_optimade_elements_filter_m(elements) ==
    "elements HAS ALL " \o JoinCommas([k \in 1..Len(elements) |-> "\"" \o elements[k] \o "\""])
        \o " AND elements LENGTH " \o IntStr(Len(elements))

\* applied to non-empty lists only (quoted_elements[0] of an empty list is an
\* IndexError, and get_optimade_cifs never passes one)
_create_optimade_elements_filter(elements) ==
    LET quoted_elements == [k \in 1..Len(elements) |-> "\"" \o elements[k] \o "\""]
    IN  IF Len(elements) > 1
        THEN "elements HAS ALL " \o JoinCommas(quoted_elements)
                 \o " AND elements LENGTH " \o IntStr(Len(quoted_elements))
        ELSE "elements HAS " \o quoted_elements[1] \o " AND elements LENGTH 1"

Lowercase == {LowerOf[c] : c \in Uppercase}

\* the matches of [A-Z][a-z]? in s from position i on, leftmost first, as
\* <<first, last>> index pairs
RECURSIVE ElementMatches(_, _)
ElementMatches(s, i) ==
    IF i > Len(s) THEN <<>>
    ELSE IF Char(s, i) \notin Uppercase THEN ElementMatches(s, i + 1)
    ELSE IF i < Len(s) /\ Char(s, i + 1) \in Lowercase
         THEN <<<<i, i + 1>>>> \o ElementMatches(s, i + 2)
         ELSE <<<<i, i>>>> \o ElementMatches(s, i + 1)

\* str(int(num)) of a digit string: leading zeros dropped, one digit at least
RECURSIVE PyStrInt(_)
PyStrInt(num) ==
    IF Len(num) > 1 /\ Char(num, 1) = "0" THEN PyStrInt(Tail(num)) ELSE num

\* characters in code point order, for the comparison of str
OrdChars == "0123456789ABCDEFGHIJKLMNOPQRSTUVWXYZabcdefghijklmnopqrstuvwxyz"

\* a < b as Python compares str
RECURSIVE StrLess(_, _)
StrLess(a, b) ==
    IF b = "" THEN FALSE
    ELSE IF a = "" THEN TRUE
    ELSE IF Char(a, 1) # Char(b, 1) THEN Find(OrdChars, Char(a, 1)) < Find(OrdChars, Char(b, 1))
    ELSE StrLess(Tail(a), Tail(b))

\* (el, num) tuples compared as Python compares tuples
PairLess(p, q) ==
    IF p[1] # q[1] THEN StrLess(p[1], q[1]) ELSE StrLess(p[2], q[2])

\* sorted(pairs)
RECURSIVE SortedPairs(_)
SortedPairs(pairs) ==
    IF pairs = <<>> THEN <<>>
    ELSE LET rest == SortedPairs(Tail(pairs))
             before == {k \in 1..Len(rest) : PairLess(rest[k], Head(pairs))}
         IN  SubSeq(rest, 1, Cardinality(before)) \o <<Head(pairs)>>
                 \o SubSeq(rest, Cardinality(before) + 1, Len(rest))

\* "".join(f"{el}{num}" ...)
RECURSIVE JoinPairs(_)
JoinPairs(pairs) ==
    IF pairs = <<>> THEN "" ELSE pairs[1][1] \o pairs[1][2] \o JoinPairs(Tail(pairs))

\* not (num and str(num) != "1")
unit_or_absent(num) == num = "" \/ num = "1"

_sanitize_formula(formula) ==
    LET found == ElementMatches(formula, 1)
        elements == [k \in 1..Len(found) |-> SubSeq(formula, found[k][1], found[k][2])]
        \* re.split(...)[1:]: what stands after each match, up to the next one
        split == [k \in 1..Len(found) |->
                     SubSeq(formula, found[k][2] + 1,
                            IF k < Len(found) THEN found[k + 1][1] - 1 ELSE Len(formula))]
        numbers == [k \in 1..Len(found) |->
                       IF unit_or_absent(split[k]) THEN "" ELSE PyStrInt(split[k])]
    IN  JoinPairs(SortedPairs([k \in 1..Len(found) |-> <<elements[k], numbers[k]>>]))

(***************************************************************************)
(* tools/optimade.py: get_optimade_cifs. An argument is None or Some(value); *)
(* the elements value is [type, items], a list or (were the annotation      *)
(* ignored) a tuple. A structure is the set of its elements.                *)
(***************************************************************************)
without_oqmd ==
    [d \in {"cod", "mp"} |->
        IF d = "cod" THEN "https://www.crystallography.net/cod/optimade/"
        ELSE "https://optimade.materialsproject.org"]

allowed_database_endpoints ==
    [d \in {"cod", "mp", "oqmd"} |->
        CASE d = "cod" -> "https://www.crystallography.net/cod/optimade/"
          [] d = "mp" -> "https://optimade.materialsproject.org"
          [] d = "oqmd" -> "https://oqmd.org/optimade"]

\* bool(x) of an optional str, and of the elements argument
truthy_str(x) == x # None /\ x[1] # ""

truthy_elements(x) == x # None /\ x[1].items # <<>>

\* repr() of None, of a str and of a list of str (no quote inside the strings)
PyReprStr(x) == "'" \o x \o "'"

RECURSIVE PyReprItems(_)
PyReprItems(items) ==
    IF items = <<>> THEN ""
    ELSE IF Len(items) = 1 THEN PyReprStr(items[1])
    ELSE PyReprStr(items[1]) \o ", " \o PyReprItems(Tail(items))

PyReprOptStr(x) == IF x = None THEN "None" ELSE PyReprStr(x[1])

PyReprElements(x) == IF x = None THEN "None" ELSE "[" \o PyReprItems(x[1].items) \o "]"

\* the branch of the if/elif chain that builds the filter, the docstring's way:
\* formula before elements
filter_kind_m(elements, formula, query) ==
    IF truthy_str(query) THEN "query"
    ELSE IF truthy_str(formula) THEN "formula"
    ELSE IF truthy_elements(elements) THEN "elements"
    ELSE "none"

\* the branch of the if/elif chain that builds the filter
filter_kind(elements, formula, query) ==
    IF truthy_str(query) THEN "query"
    ELSE IF truthy_elements(elements) THEN "elements"
    ELSE IF truthy_str(formula) THEN "formula"
    ELSE "none"

formula_refused_m(database) == FALSE

\* if database == "cod": raise ModelRetry
formula_refused(database) == database = "cod"

nothing_found_m(raw_structures) == FALSE

\* if not raw_structures
nothing_found(raw_structures) == raw_structures = {}

\* The filter language as the server reads the element filters: the quoted
\* names of the filter text, and the number after LENGTH.
RECURSIVE QuotedNames(_)
QuotedNames(text) ==
    TheOne({IF i = 0 THEN {}
            ELSE TheOne({IF j = 0 THEN {}
                         ELSE {SubSeq(text, i + 1, i + j - 1)}
                                  \cup QuotedNames(SubSeq(text, i + j + 1, Len(text))) :
                            j \in {Find(SubSeq(text, i + 1, Len(text)), "\"")}}) :
               i \in {Find(text, "\"")}})

RECURSIVE ParseInt(_)
ParseInt(digits) ==
    IF digits = "" THEN 0
    ELSE 10 * ParseInt(SubSeq(digits, 1, Len(digits) - 1))
             + (Find(Digits, Char(digits, Len(digits))) - 1)

LengthOf(text) ==
    TheOne({ParseInt(SubSeq(text, i + 8, Len(text))) : i \in {Find(text, " LENGTH ")}})

\* elements HAS [ALL] "a",... AND elements LENGTH n, of one structure
Satisfies(structure, text) ==
    /\ QuotedNames(text) \subseteq structure
    /\ Cardinality(structure) = LengthOf(text)

\* client.get(_filter): what the endpoint answers from its content. An element
\* filter selects the structures that satisfy it; a formula filter or a raw
\* query is the server's to evaluate: none, one or all of its structures.
ServerAnswers(kind, text, content) ==
    IF kind = "elements"
    THEN {{structure \in content : Satisfies(structure, text)}}
    ELSE {{}, content} \cup {{structure} : structure \in content}

NoCifCall ==
    [elements |-> None, formula |-> None, query |-> None, database |-> "",
     outcome |-> "none", message |-> "", client |-> None, kind |-> "",
     filter |-> None, sent |-> <<>>, content |-> None, answer |-> None, result |-> {}]

\* lines 110-126: the query is sent, an empty answer is an error, the
\* structures are returned otherwise; formula is the variable as it is bound
\* at that point (the sanitized formula after a formula search)
query_endpoint(made, endpoint, _filter, formula, content) ==
    \E raw_structures \in ServerAnswers(made.kind, _filter, content) :
    \E asked \in {[made EXCEPT !.filter = Some(_filter),
                               !.sent = <<[endpoint |-> endpoint, filter |-> _filter]>>,
                               !.content = Some(content),
                               !.answer = Some(raw_structures)]} :
        cifCall' =
            IF nothing_found(raw_structures)
            THEN [asked EXCEPT !.outcome = "RuntimeError",
                               !.message = "No structures found for elements="
                                   \o PyReprElements(made.elements)
                                   \o ", formula=" \o PyReprOptStr(formula)
                                   \o " in database=" \o PyReprStr(made.database) \o "."]
            ELSE [asked EXCEPT !.outcome = "returned", !.result = raw_structures]

\* (the messages are the code's, without the backquotes it puts around names)
get_optimade_cifs(elements, formula, query, database, content) ==
    \E args \in {[NoCifCall EXCEPT !.elements = elements, !.formula = formula,
                                   !.query = query, !.database = database]} :
        IF database \notin DOMAIN allowed_database_endpoints
        THEN cifCall' = [args EXCEPT !.outcome = "RuntimeError",
                                     !.message = "Unknown database " \o PyReprStr(database)
                                         \o ". Must be one of 'cod', 'mp', or 'oqmd'."]
        ELSE \E endpoint \in {allowed_database_endpoints[database]},
                kind \in {filter_kind(elements, formula, query)} :
             \E made \in {[args EXCEPT !.client = Some(endpoint), !.kind = kind]} :
                CASE kind = "query" ->
                       query_endpoint(made, endpoint, query[1], formula, content)
                  [] kind = "elements" ->
                       IF elements[1].type # "list"
                       THEN cifCall' = [made EXCEPT
                                !.outcome = "RuntimeError",
                                !.message = "elements must be a list of element symbols, not <class '"
                                                \o elements[1].type \o "'>."]
                       ELSE query_endpoint(made, endpoint,
                                           _create_optimade_elements_filter(elements[1].items),
                                           formula, content)
                  [] kind = "formula" ->
                       IF formula_refused(database)
                       THEN cifCall' = [made EXCEPT
                                !.outcome = "ModelRetry",
                                !.message = "Use elements rather than formula for cod search"]
                       ELSE \E sanitized_formula \in {_sanitize_formula(formula[1])} :
                                query_endpoint(made, endpoint,
                                               "chemical_formula_reduced=\"" \o sanitized_formula \o "\"",
                                               Some(sanitized_formula), content)
                  [] OTHER ->
                       cifCall' = [made EXCEPT
                                !.outcome = "RuntimeError",
                                !.message = "Must provide either elements or formula or query."]

(***************************************************************************)
(* tools/plotting.py. The numbers of a table are floats; the model holds    *)
(* an angle in units of 1/150 degree and an intensity in units of           *)
(* 1/2000000 count, which makes every product with a factor of the code     *)
(* (2/3, 0.02, 0.0005, 0.05, 0.1, 1.1) a whole number of units for the      *)
(* tables of the model.                                                     *)
(***************************************************************************)
Units == [angle |-> 150, intensity |-> 2000000]

d_theta == 3

\* Series.max() and Series.min(), of the values of a column
SeriesMax(values) == CHOOSE m \in values : \A n \in values : n <= m

SeriesMin(values) == CHOOSE m \in values : \A n \in values : m <= n

\* Series.idxmax(): the first row that holds the largest value (idxmin() is
\* idxmax() of the negated column)
idxmax(series) ==
    CHOOSE i \in DOMAIN series :
        \A j \in DOMAIN series : series[j] < series[i] \/ (series[j] = series[i] /\ i <= j)

\* pd.read_csv(path, ...): the rows of the table, or FileNotFoundError (None)
read_csv(path) == IF path \in DOMAIN plotFiles THEN Some(plotFiles[path]) ELSE None

\* hkl_df.sort_values(by=5): the reflections by increasing angle
RECURSIVE sort_values(_)
sort_values(hkl_df) ==
    IF hkl_df = <<>> THEN <<>>
    ELSE \* bind the first smallest row, then sort the rest
         TheOne({<<hkl_df[i]>> \o sort_values(SubSeq(hkl_df, 1, i - 1)
                                               \o SubSeq(hkl_df, i + 1, Len(hkl_df))) :
                    i \in {idxmax([k \in DOMAIN hkl_df |-> -hkl_df[k].two_theta])}})

label_x_of_m(tt, last_label_x, min_label_dx) == tt

\* lines 123-126 and 235-239: the label of a reflection sits at its angle, or
\* the minimum spacing right of the previous label when it would be closer
label_x_of(tt, last_label_x, min_label_dx) ==
    IF last_label_x # None /\ tt - last_label_x[1] < min_label_dx
    THEN last_label_x[1] + min_label_dx
    ELSE tt

\* the loop over the sorted reflections: those inside [x_min, x_max] are drawn
RECURSIVE hkl_labels(_, _, _, _, _)
hkl_labels(hkl_df, x_min, x_max, min_label_dx, last_label_x) ==
    IF hkl_df = <<>> THEN <<>>
    ELSE TheOne({
           IF x_min <= tt /\ tt <= x_max
           THEN TheOne({<<[tt |-> tt, intensity |-> Head(hkl_df).intensity,
                           label_x |-> label_x]>>
                          \o hkl_labels(Tail(hkl_df), x_min, x_max, min_label_dx, Some(label_x)) :
                        label_x \in {label_x_of(tt, last_label_x, min_label_dx)}})
           ELSE hkl_labels(Tail(hkl_df), x_min, x_max, min_label_dx, last_label_x) :
           tt \in {Head(hkl_df).two_theta}})

\* One main axis, as both functions draw it (lines 80-156 and 209-271): the two
\* curves, then with a reflection table the ticks and labels of the window and
\* the room made above the highest label. hkl is None or the sorted table,
\* x_range None or the window.
main_axis(df, hkl, x_range) ==
    LET \* ax.get_ylim() of an axis whose limits were never set: matplotlib pads
        \* the interval [lo, hi] spanned by what was drawn by 5% of its length
        get_ylim(lo, hi) == <<lo - (hi - lo) \div 20, hi + (hi - lo) \div 20>>
        \* y_peak = max(yobs[idx], ycalc[idx]) at idx = (abs(x - tt)).idxmin()
        y_peak(tt) ==
            TheOne({IF df[idx].yobs >= df[idx].ycalc THEN df[idx].yobs ELSE df[idx].ycalc :
                       idx \in {idxmax([k \in DOMAIN df |->
                                           IF df[k].x >= tt THEN tt - df[k].x
                                                            ELSE df[k].x - tt])}})
        ys == {df[k].yobs : k \in DOMAIN df} \cup {df[k].ycalc : k \in DOMAIN df}
        xs == {df[k].x : k \in DOMAIN df}
        window == IF x_range # None THEN x_range[1] ELSE <<SeriesMin(xs), SeriesMax(xs)>>
        min_label_dx == (window[2] - window[1]) \div 50
        first == get_ylim(SeriesMin(ys), SeriesMax(ys))
        span == first[2] - first[1]
        tick_base == first[1] + span \div 2000
        top == SeriesMax({hkl[1][k].intensity : k \in DOMAIN hkl[1]})
        placed == hkl_labels(hkl[1], window[1], window[2], min_label_dx, None)
        labels == [k \in DOMAIN placed |->
                      [tt |-> placed[k].tt, label_x |-> placed[k].label_x,
                       tick_top |-> tick_base + (placed[k].intensity * span) \div (10 * top),
                       label_y |-> y_peak(placed[k].tt) + span \div 20]]
        \* the ticks belong to what is drawn when the limits are read again
        second == get_ylim(SeriesMin(ys \cup {tick_base}),
                           SeriesMax(ys \cup {labels[k].tick_top : k \in DOMAIN labels}))
        max_label_y == SeriesMax({labels[k].label_y : k \in DOMAIN labels})
        buffer == (second[2] - second[1]) \div 10
    IN  IF hkl = None
        THEN [window |-> window, min_label_dx |-> min_label_dx, labels |-> <<>>,
              ylim |-> first]
        ELSE IF placed = <<>>
        THEN [window |-> window, min_label_dx |-> min_label_dx, labels |-> <<>>,
              ylim |-> first]
        ELSE [window |-> window, min_label_dx |-> min_label_dx, labels |-> labels,
              ylim |-> <<second[1],
                         IF max_label_y + buffer > second[2]
                         THEN max_label_y + buffer ELSE second[2]>>]

\* lines 279-285: the limits the single panel sets for an angle range, None
\* when no point lies in the range (the maximum of nothing is NaN, which
\* set_ylim refuses with a ValueError)
zoomed_ylim(df, x_range) ==
    LET inside == {k \in DOMAIN df : x_range[1] <= df[k].x /\ df[k].x <= x_range[2]}
        max_y == SeriesMax({df[k].yobs : k \in inside} \cup {df[k].ycalc : k \in inside})
    IN  IF inside = {} THEN None ELSE Some(<<0, (max_y * 11) \div 10>>)

\* lines 48-67: the four windows of the multi-panel plot
x_ranges(df) ==
    LET peak_2theta == df[idxmax([k \in DOMAIN df |-> df[k].yobs])].x
        resid_2theta == df[idxmax([k \in DOMAIN df |->
                                      IF df[k].yobs >= df[k].ycalc
                                      THEN df[k].yobs - df[k].ycalc
                                      ELSE df[k].ycalc - df[k].yobs])].x
        xs == {df[k].x : k \in DOMAIN df}
        x_min == SeriesMin(xs)
        x_max == SeriesMax(xs)
        high_third_min == x_min + (2 * (x_max - x_min)) \div 3
    IN  <<None,
          Some(<<peak_2theta - d_theta * Units.angle, peak_2theta + d_theta * Units.angle>>),
          Some(<<resid_2theta - d_theta * Units.angle, resid_2theta + d_theta * Units.angle>>),
          Some(<<high_third_min, x_max>>)>>

\* PlotResultsOutput(output_filepath=..., output_image=...): output_image is
\* declared BinaryContent, not Optional, so None does not validate
PlotResultsOutput(output_filepath, output_image) ==
    IF output_image = None
    THEN None
    ELSE Some([output_filepath |-> output_filepath, output_image |-> output_image[1]])

NoPlot ==
    [number |-> 0, fn |-> "none", hkl_file |-> None, x_range |-> None, save_path |-> "",
     saved |-> "", outcome |-> "none", error |-> "", panels |-> <<>>, result |-> None]

\* lines 158-164 and 287-293: the figure is saved and closed, the image is
\* loaded back and the result built. saved is what becomes of save_path:
\* "unwritable" when savefig raises, else what load_local_image finds there.
save_and_return(call, panels, save_path, saved) ==
    IF saved = "unwritable"
    THEN /\ plotCall' = [call EXCEPT !.outcome = "raised", !.error = "OSError",
                                     !.panels = panels]
         /\ figures' = figures + 1
    ELSE \E result \in {PlotResultsOutput(save_path, load_local_image(save_path, saved))} :
         /\ plotCall' = IF result = None
                        THEN [call EXCEPT !.outcome = "raised", !.error = "ValidationError",
                                          !.panels = panels]
                        ELSE [call EXCEPT !.outcome = "returned", !.panels = panels,
                                          !.result = result]
         /\ figures' = figures

plot_refinement_single_panel(output_file, save_path, hkl_file, x_range, saved) ==
    \E call \in {[NoPlot EXCEPT !.number = plotCall.number + 1, !.fn = "single",
                                !.hkl_file = hkl_file, !.x_range = x_range,
                                !.save_path = save_path, !.saved = saved]},
       df \in {read_csv(output_file)[1]},
       hkl_df \in {IF hkl_file = None THEN Some(None) ELSE read_csv(hkl_file[1])} :
        IF hkl_df = None
        THEN \* line 190 raises before the figure is made
             /\ plotCall' = [call EXCEPT !.outcome = "raised", !.error = "FileNotFoundError"]
             /\ figures' = figures
        ELSE \E hkl \in {IF hkl_df[1] = None THEN None ELSE Some(sort_values(hkl_df[1]))} :
             \E axis \in {main_axis(df, hkl, x_range)},
                zoom \in {IF x_range = None THEN None ELSE zoomed_ylim(df, x_range[1])} :
                 IF x_range # None /\ zoom = None
                 THEN /\ plotCall' = [call EXCEPT !.outcome = "raised", !.error = "ValueError",
                                                  !.panels = <<axis>>]
                      /\ figures' = figures + 1
                 ELSE save_and_return(call,
                                      <<IF x_range = None THEN axis
                                        ELSE [axis EXCEPT !.ylim = zoom[1]]>>,
                                      save_path, saved)

plot_refinement_multi_panel(output_file, save_path, hkl_file, saved) ==
    \E call \in {[NoPlot EXCEPT !.number = plotCall.number + 1, !.fn = "multi",
                                !.hkl_file = hkl_file, !.save_path = save_path,
                                !.saved = saved]},
       df \in {read_csv(output_file)[1]},
       hkl_df \in {IF hkl_file = None THEN Some(None) ELSE read_csv(hkl_file[1])} :
        IF hkl_df = None
        THEN \* line 99 raises in the first panel, after plt.subplots at line 75
             /\ plotCall' = [call EXCEPT !.outcome = "raised", !.error = "FileNotFoundError"]
             /\ figures' = figures + 1
        ELSE \E hkl \in {IF hkl_df[1] = None THEN None ELSE Some(sort_values(hkl_df[1]))},
                windows \in {x_ranges(df)} :
                 save_and_return(call,
                                 [i \in 1..4 |-> main_axis(df, hkl, windows[i])],
                                 save_path, saved)

(***************************************************************************)
(* The inputs and the bounds of the model.                                 *)
(***************************************************************************)
MaxTurns == 3
MaxHist == 4
MaxLimit == 5
MaxReturnCode == 1

Filenames == {"a.inp", "a", "b.inp", "a.b"}

InpTexts ==
    {"",
     "Out_X_Yobs_Ycalc(\"a_output.txt\")",
     "xdd pattern.xy\nOut_X_Yobs_Ycalc(\"a_output.txt\")\n",
     "Out_X_Yobs_Ycalc(\"b_output.txt\")\nstr\n",
     "Out_X_Yobs_Ycalc(\"a_output.txt\")Out_X_Yobs_Ycalc(\"b_output.txt\")",
     "out_x_yobs_ycalc(\"a_output.txt\")",
     "Out_X_Yobs_Ycalc(\"a_output.txt\"",
     "Out_X_Yobs_Ycalc(\"output.txt\")\n",
     "Out_X_Yobs_Ycalc(\"a.inp_output.txt\")"}

InpPaths == {"run_dir/a.inp"}

Processes ==
    {Completed(rc, "refining", "bad input") : rc \in 0..MaxReturnCode}
    \cup {Completed(0, "", ""), TimeoutExpired}

Images == {None, Some("image/png")}

InputLines ==
    {"quit", " Exit ", "BYE", "History", "clear ", "", "  ",
     "hello", "see http://h/a.png", "HTTP://H/B.JPG", "look /tmp/c.png",
     "/tmp/c.png http://h/a.png"}

Responses == {"ok"}

Exceptions == {"Exception", "KeyboardInterrupt"}

\* the sizes of the plotting model: reflections in a table, plot calls in a row
MaxReflections == 3

MaxPlotCalls == 2

\* output tables, of rows of an angle in degrees, an observed and a calculated
\* count: in the first the largest peak is at 12 and the largest residual at
\* 10 degrees, in the second at 15 and at 14 degrees
Patterns ==
    LET Row(x, yobs, ycalc) ==
            [x |-> x * Units.angle, yobs |-> yobs * Units.intensity,
             ycalc |-> ycalc * Units.intensity]
    IN  {<<Row(10, 1, 3), Row(12, 5, 4), Row(14, 2, 2), Row(15, 3, 3), Row(16, 1, 1)>>,
         <<Row(10, 0, 0), Row(12, 2, 2), Row(14, 1, 3), Row(15, 4, 4), Row(16, 1, 2)>>}

\* rows of the reflection table: one reflection far from the others and two
\* that lie 4/150 degree apart, closer than any minimum spacing of a panel
Reflections ==
    {[two_theta |-> 11 * Units.angle, intensity |-> 2],
     [two_theta |-> 15 * Units.angle, intensity |-> 1],
     [two_theta |-> 15 * Units.angle + 4, intensity |-> 2]}

\* the reflection tables of 1..n rows, in any order, rows repeated or not
RECURSIVE HklTables(_)
HklTables(n) ==
    IF n = 1 THEN {<<r>> : r \in Reflections}
    ELSE HklTables(n - 1)
            \cup {Append(t, r) : t \in {u \in HklTables(n - 1) : Len(u) = n - 1},
                                 r \in Reflections}

OutputFile == "run_dir/a_output.txt"

HklFile == "run_dir/a_hkl.txt"

SavePath == "run_dir/a_plot.png"

\* hkl_file: not given, the table on disk, or a path that names no file
HklFileArgs == {None, Some(HklFile), Some("run_dir/b_hkl.txt")}

\* what the loop computes from each line that can be typed, computed once
MaxElements == 3

MaxTokens == 2

Symbols == {"Sb", "S", "X"}

\* the lists of at most n element symbols, repeated symbols included
RECURSIVE ElementLists(_)
ElementLists(n) ==
    IF n = 0 THEN {<<>>}
    ELSE ElementLists(n - 1) \cup
         {Append(l, el) : l \in {m \in ElementLists(n - 1) : Len(m) = n - 1}, el \in Symbols}

ElementArgs ==
    {None} \cup {Some([type |-> "list", items |-> l]) : l \in ElementLists(MaxElements)}
           \cup {Some([type |-> "tuple", items |-> <<"Sb", "S">>])}

FormulaArgs == {None, Some(""), Some("NaCoO2"), Some("Na01")}

QueryArgs == {None, Some(""), Some("nelements=2")}

DatabaseArgs == {"cod", "mp", "oqmd", "nomad"}

\* the structures a database may hold, and the contents tried
Structures == (SUBSET Symbols) \ {{}}

Contents == {{}, Structures}

\* formulas: element symbols, each followed by a digit string or by nothing
FormulaSymbols == {"Na", "Co", "O"}

CountTexts == {"", "1", "2", "01"}

RECURSIVE TokenLists(_)
TokenLists(n) ==
    IF n = 0 THEN {<<>>}
    ELSE TokenLists(n - 1) \cup
         {Append(l, <<el, num>>) : l \in {m \in TokenLists(n - 1) : Len(m) = n - 1},
                                   el \in FormulaSymbols, num \in CountTexts}

\* a count that is absent or stands for one
UnitCount(num) == num = "" \/ PyStrInt(num) = "1"

\* the same (element, count) pairs in another order, a count of one written
\* or left out
Variants(tokens) ==
    {v \in TokenLists(MaxTokens) :
        /\ Len(v) = Len(tokens)
        /\ \E f \in Permutations(1..Len(tokens)) :
              \A k \in 1..Len(tokens) :
                  /\ v[f[k]][1] = tokens[k][1]
                  /\ \/ v[f[k]][2] = tokens[k][2]
                     \/ UnitCount(v[f[k]][2]) /\ UnitCount(tokens[k][2])}

NoSanitized ==
    [tokens |-> <<>>, variant |-> <<>>, formula |-> "", applied |-> FALSE,
     once |-> "", twice |-> "", other |-> ""]

LineRead == [line \in InputLines |-> command_of(Strip(line))]

ImageFound ==
    [line \in InputLines |-> [disk \in DiskStates |-> message_parts_of(Strip(line), disk)]]

NoTurn ==
    [raw |-> "", user_input |-> "", event |-> "none", branch |-> "", has_image |-> FALSE,
     image_ref |-> "", disk |-> "", agent_message |-> None, response |-> "",
     pending |-> 0, raised |-> ""]

\* One pass of the loop body from input() to the await: the special commands
\* are handled here, a free-text turn is recorded and handed to the agent.
ReadTurn(line, disk) ==
    \E read \in {[NoTurn EXCEPT !.raw = line, !.user_input = Strip(line),
                                !.pending = Len(inflight)]},
       command \in {LineRead[line]} :
        CASE command = "quit" ->
               /\ pc' = "terminated"
               /\ turn' = [read EXCEPT !.event = "quit"]
               /\ UNCHANGED <<messages, now, inflight>>
          [] command = "history" ->
               /\ pc' = "awaiting"
               /\ turn' = [read EXCEPT !.event = "history"]
               /\ UNCHANGED <<messages, now, inflight>>
          [] command = "clear" ->
               /\ messages' = <<>>
               /\ pc' = "awaiting"
               /\ turn' = [read EXCEPT !.event = "clear"]
               /\ UNCHANGED <<now, inflight>>
          [] command = "empty" ->
               /\ pc' = "awaiting"
               /\ turn' = [read EXCEPT !.event = "empty"]
               /\ UNCHANGED <<messages, now, inflight>>
          [] OTHER ->
               \E found \in {ImageFound[line][disk]} :
               \E stored \in {add_message(messages, "user", read.user_input,
                                          found.has_image, now)} :
               \E agent_message \in {agent_message_of(found.has_image, found.message_parts,
                                                      get_formatted_history(stored, 5),
                                                      read.user_input)} :
                   /\ messages' = stored
                   /\ now' = now + 1
                   /\ await_agent_run(agent_message)
                   /\ turn' = [read EXCEPT !.event = "dispatched",
                                           !.branch = found.branch,
                                           !.has_image = found.has_image,
                                           !.image_ref = found.image_ref,
                                           !.disk = IF found.branch = "local"
                                                    THEN disk ELSE "",
                                           !.agent_message = Some(agent_message)]

(***************************************************************************)
(* The tool calls, as the agent makes them.                                *)
(***************************************************************************)
SaveInp ==
    \E filename \in Filenames, inp_text \in InpTexts :
        /\ save_topas_inp(filename, inp_text)
        /\ runCall' = NoRun
        /\ UNCHANGED <<chatVars, recent, optimadeVars, plotVars>>

RunRefinement ==
    \E inp_path \in InpPaths, proc \in Processes, image \in Images :
        \E produced \in SUBSET TopasOutputs(inp_path) :
            /\ run_topas_refinement(inp_path, proc, produced, image)
            /\ saveCall' = NoSave
            /\ UNCHANGED <<chatVars, recent, optimadeVars, plotVars>>

\* The same two tools, called with names and paths the agent is free to pass:
\* file names that carry directory parts, and an input file in a directory
\* whose own name holds ".inp". TOPAS writes all of its output files or none.
PathNames == {"a.inp", "../a.inp", "/tmp/a.inp"}

ProbePaths == {"run_dir/a.inp", "old.inp/a.inp"}

SaveInpNamed ==
    \E filename \in PathNames :
        \E inp_text \in {"", output_macro_text(basename(filename)),
                         "str\n" \o output_macro_text(basename(filename))} :
            /\ save_topas_inp(filename, inp_text)
            /\ runCall' = NoRun
            /\ UNCHANGED <<chatVars, recent, optimadeVars, plotVars>>

RunRefinementAt ==
    \E inp_path \in ProbePaths, proc \in Processes :
        \E produced \in {{}, TopasOutputs(inp_path)} :
            /\ run_topas_refinement(inp_path, proc, produced, Some("image/png"))
            /\ saveCall' = NoSave
            /\ UNCHANGED <<chatVars, recent, optimadeVars, plotVars>>

(***************************************************************************)
(* The steps of chat_loop.                                                 *)
(***************************************************************************)
\* input() returns a line and the turn runs up to the await (or to continue/break)
Input ==
    \E line \in InputLines, disk \in DiskStates :
        /\ pc = "awaiting"
        /\ turns < MaxTurns
        /\ turns' = turns + 1
        /\ ReadTurn(line, disk)
        /\ UNCHANGED <<topasVars, recent, optimadeVars, plotVars>>

\* input() raises: end of input, or Ctrl-C
InputRaises ==
    \E exc \in Exceptions :
        /\ pc = "awaiting"
        /\ turns < MaxTurns
        /\ turns' = turns + 1
        /\ pc' = on_exception(exc)
        /\ turn' = [NoTurn EXCEPT !.event = exc, !.raised = "input",
                                  !.pending = Len(inflight)]
        /\ UNCHANGED <<messages, now, inflight, topasVars, recent, optimadeVars, plotVars>>

\* an exception while the image of a free-text turn is handled, before the
\* user message is recorded
ImageRaises ==
    \E line \in InputLines, disk \in DiskStates, exc \in Exceptions :
        /\ pc = "awaiting"
        /\ turns < MaxTurns
        /\ LineRead[line] = "text"
        /\ ImageFound[line][disk].branch # "text"
        /\ turns' = turns + 1
        /\ pc' = on_exception(exc)
        /\ turn' = [NoTurn EXCEPT !.raw = line, !.user_input = Strip(line),
                                  !.event = exc, !.raised = "image",
                                  !.pending = Len(inflight)]
        /\ UNCHANGED <<messages, now, inflight, topasVars, recent, optimadeVars, plotVars>>

\* agent.run returns its result
AgentReturns ==
    \E response \in Responses :
        /\ pc = "dispatching"
        /\ inflight # <<>>
        /\ inflight' = Tail(inflight)
        /\ pc' = "printing"
        /\ turn' = [turn EXCEPT !.event = "answered", !.response = response]
        /\ UNCHANGED <<messages, now, turns, topasVars, recent, optimadeVars, plotVars>>

\* agent.run raises, or Ctrl-C arrives while it runs
AgentRaises ==
    \E exc \in Exceptions :
        /\ pc = "dispatching"
        /\ inflight # <<>>
        /\ inflight' = Tail(inflight)
        /\ pc' = on_exception(exc)
        /\ turn' = [turn EXCEPT !.event = exc, !.raised = "dispatch"]
        /\ UNCHANGED <<messages, now, turns, topasVars, recent, optimadeVars, plotVars>>

\* the response is printed and recorded
PrintResponse ==
    /\ pc = "printing"
    /\ messages' = add_message(messages, "assistant", turn.response, FALSE, now)
    /\ now' = now + 1
    /\ pc' = "awaiting"
    /\ turn' = [turn EXCEPT !.event = "recorded"]
    /\ UNCHANGED <<inflight, turns, topasVars, recent, optimadeVars, plotVars>>

\* print(response_text) raises
PrintRaises ==
    \E exc \in Exceptions :
        /\ pc = "printing"
        /\ pc' = on_exception(exc)
        /\ turn' = [turn EXCEPT !.event = exc, !.raised = "print"]
        /\ UNCHANGED <<messages, now, inflight, turns, topasVars, recent, optimadeVars, plotVars>>

(***************************************************************************)
(* get_recent_messages applied to a history.                               *)
(***************************************************************************)
NoRecent == [called |-> FALSE, limit |-> 0, result |-> <<>>]

GetRecent ==
    \E limit \in 0..MaxLimit :
        /\ recent' = [called |-> TRUE, limit |-> limit,
                      result |-> get_recent_messages(messages, limit)]
        /\ UNCHANGED <<topasVars, chatVars, optimadeVars, plotVars>>

\* the histories of at most MaxHist messages, as add_message builds them
RECURSIVE Histories(_)
Histories(n) ==
    IF n = 0 THEN {<<>>}
    ELSE Histories(n - 1) \cup
         {add_message(h, role, "hello", FALSE, Len(h)) :
             h \in {g \in Histories(n - 1) : Len(g) = n - 1},
             role \in {"user", "assistant"}}

(***************************************************************************)
(* The plot functions, called MaxPlotCalls times at most in one process.   *)
(***************************************************************************)
\* x_range: not given, the top of the pattern, or a range beyond the pattern
PlotSinglePanel ==
    \E hkl_file \in HklFileArgs,
       x_range \in {None, Some(<<14 * Units.angle, 16 * Units.angle>>),
                    Some(<<17 * Units.angle, 18 * Units.angle>>)} :
        /\ plotCall.number < MaxPlotCalls
        /\ plot_refinement_single_panel(OutputFile, SavePath, hkl_file, x_range,
                                        plotFiles[SavePath])
        /\ UNCHANGED <<topasVars, chatVars, recent, optimadeVars, plotFiles>>

PlotMultiPanel ==
    \E hkl_file \in HklFileArgs :
        /\ plotCall.number < MaxPlotCalls
        /\ plot_refinement_multi_panel(OutputFile, SavePath, hkl_file, plotFiles[SavePath])
        /\ UNCHANGED <<topasVars, chatVars, recent, optimadeVars, plotFiles>>

(***************************************************************************)
(* The specifications.                                                     *)
(***************************************************************************)
InitTopas == fs = <<>> /\ dirs = {} /\ saveCall = NoSave /\ runCall = NoRun

InitChat ==
    /\ messages = <<>>
    /\ now = 0
    /\ pc = "awaiting"
    /\ turn = NoTurn
    /\ inflight = <<>>
    /\ turns = 0

InitOptimade == cifCall = NoCifCall /\ sanitized = NoSanitized

InitPlot == plotFiles = <<>> /\ plotCall = NoPlot /\ figures = 0

Init == InitTopas /\ InitChat /\ recent = NoRecent /\ InitOptimade /\ InitPlot

\* the chat loop
Next ==
    \/ Input
    \/ InputRaises
    \/ ImageRaises
    \/ AgentReturns
    \/ AgentRaises
    \/ PrintResponse
    \/ PrintRaises

Spec == Init /\ [][Next]_vars

\* the TOPAS tools
NextTopas == SaveInp \/ RunRefinement

SpecTopas == Init /\ [][NextTopas]_vars

\* the TOPAS tools on names and paths with directory parts
SpecPaths == Init /\ [][SaveInpNamed \/ RunRefinementAt]_vars

\* get_recent_messages on every history of at most MaxHist messages
InitHistory ==
    /\ InitTopas
    /\ messages \in Histories(MaxHist)
    /\ now = Len(messages)
    /\ pc = "awaiting"
    /\ turn = NoTurn
    /\ inflight = <<>>
    /\ turns = 0
    /\ recent = NoRecent
    /\ InitOptimade
    /\ InitPlot

SpecHistory == InitHistory /\ [][GetRecent]_vars

\* the last turns of a chat that already holds a history: one of at most
\* MaxHist messages that the loop can have recorded, where every response
\* follows the user message it answers
InitPrompt ==
    /\ InitTopas
    /\ messages \in {h \in Histories(MaxHist) :
                        \A i \in 1..Len(h) :
                            h[i].role = "assistant" => i > 1 /\ h[i - 1].role = "user"}
    /\ now = Len(messages)
    /\ pc = "awaiting"
    /\ turn = NoTurn
    /\ inflight = <<>>
    /\ turns = MaxTurns - 2
    /\ recent = NoRecent
    /\ InitOptimade
    /\ InitPlot

SpecPrompt == InitPrompt /\ [][Next]_vars

\* get_optimade_cifs, called with any arguments against any database content
InitCifs ==
    /\ InitTopas /\ InitChat /\ recent = NoRecent /\ InitPlot
    /\ sanitized = NoSanitized
    /\ cifCall \in {[NoCifCall EXCEPT !.elements = elements, !.formula = formula,
                                      !.query = query, !.database = database,
                                      !.outcome = "pending"] :
                        elements \in ElementArgs, formula \in FormulaArgs,
                        query \in QueryArgs, database \in DatabaseArgs}

GetOptimadeCifs ==
    \E content \in Contents :
        /\ cifCall.outcome = "pending"
        /\ get_optimade_cifs(cifCall.elements, cifCall.formula, cifCall.query,
                             cifCall.database, content)
        /\ UNCHANGED <<topasVars, chatVars, recent, sanitized, plotVars>>

SpecOptimade == InitCifs /\ [][GetOptimadeCifs]_vars

\* _sanitize_formula, applied to a formula, to its own result and to a variant
InitSanitize ==
    /\ InitTopas /\ InitChat /\ recent = NoRecent /\ InitPlot
    /\ cifCall = NoCifCall
    /\ sanitized \in UNION {{[NoSanitized EXCEPT !.tokens = tokens, !.variant = variant,
                                                 !.formula = JoinPairs(tokens)] :
                                 variant \in Variants(tokens)} :
                             tokens \in TokenLists(MaxTokens)}

SanitizeFormula ==
    /\ ~sanitized.applied
    /\ \E once \in {_sanitize_formula(sanitized.formula)} :
          sanitized' = [sanitized EXCEPT
                           !.applied = TRUE,
                           !.once = once,
                           !.twice = _sanitize_formula(once),
                           !.other = _sanitize_formula(JoinPairs(sanitized.variant))]
    /\ UNCHANGED <<topasVars, chatVars, recent, cifCall, plotVars>>

SpecSanitize == InitSanitize /\ [][SanitizeFormula]_vars

\* the plot functions on every pair of tables and every fate of the image
\* path: savefig cannot write it, or it is written and load_local_image then
\* finds it readable, gone or unreadable
InitPlots ==
    /\ InitTopas /\ InitChat /\ recent = NoRecent /\ InitOptimade
    /\ plotFiles \in {[path \in {OutputFile, HklFile, SavePath} |->
                          CASE path = OutputFile -> df
                            [] path = HklFile -> hkl_df
                            [] path = SavePath -> saved] :
                         df \in Patterns, hkl_df \in HklTables(MaxReflections),
                         saved \in {"unwritable", "file", "missing", "unreadable"}}
    /\ plotCall = NoPlot
    /\ figures = 0

SpecPlot == InitPlots /\ [][PlotSinglePanel \/ PlotMultiPanel]_vars

(***************************************************************************)
(* The claims.                                                             *)
(***************************************************************************)

\* C1: when the executable exceeds the timeout, run_topas_refinement returns a
\* result whose status is "timeout" and does not end in any other error.
C1_TimeoutReturnsTimeoutResult ==
    runCall.proc = "TimeoutExpired" =>
        /\ runCall.outcome = "returned"
        /\ runCall.result # None
        /\ runCall.result[1].status = "timeout"

C3_SaveValidation ==
    [][ /\ saveCall' # NoSave =>
              LET c == saveCall'
                  own == "Out_X_Yobs_Ycalc(\"" \o basename(c.filename) \o "_output.txt\")"
                  path == "run_dir/" \o basename(c.filename) \o ".inp"
              IN  /\ c.outcome \in {"ModelRetry", "returned"}
                  /\ (c.outcome = "ModelRetry") <=> ~Contains(c.inp_text, own)
                  /\ c.outcome = "ModelRetry" => fs' = fs
                  /\ c.outcome = "returned" =>
                        /\ path \in DOMAIN fs'
                        /\ fs'[path] = c.inp_text
                        /\ c.inp_path = path
                        /\ \A q \in DOMAIN fs : q # path => q \in DOMAIN fs' /\ fs'[q] = fs[q]
        /\ saveCall' = NoSave =>
              \A q \in DOMAIN fs :
                  EndsWith(q, ".inp") => q \in DOMAIN fs' /\ fs'[q] = fs[q]
      ]_vars

C3_Witness ==
    /\ saveCall.outcome = "returned"
    /\ saveCall.inp_text = "Out_X_Yobs_Ycalc(\"a_output.txt\")"
    /\ "run_dir/a.inp" \in DOMAIN fs
    /\ fs["run_dir/a.inp"] = "Out_X_Yobs_Ycalc(\"a_output.txt\")"

\* C4: the loop terminates only on a quit/exit/bye input or on a keyboard
\* interrupt; any other exception raised during a turn is caught and the loop is
\* back awaiting input; once terminated, nothing is read or dispatched.
C4_TerminationOnlyByQuitOrInterrupt ==
    [][ /\ (pc # "terminated" /\ pc' = "terminated") =>
              \/ turn'.event = "KeyboardInterrupt"
              \/ /\ turn'.event = "quit"
                 /\ Lower(Strip(turn'.raw)) \in {"quit", "exit", "bye"}
        /\ turn'.event = "Exception" => pc' = "awaiting"
        /\ pc = "terminated" => UNCHANGED <<pc, messages, inflight, turns, turn>>
      ]_vars

C4_Witness ==
    /\ pc = "awaiting"
    /\ turn.event = "Exception"
    /\ turn.raised = "dispatch"

\* C5: whenever the loop is awaiting input, the history holds complete turns
\* only: every user message is immediately followed by the assistant response
\* to it.
C5_OnlyCompleteTurns ==
    pc = "awaiting" =>
        \A i \in 1..Len(messages) :
            messages[i].role = "user" =>
                i < Len(messages) /\ messages[i + 1].role = "assistant"

\* C6: a turn whose input, trimmed and lower-cased, is quit/exit/bye, history,
\* clear or empty never reaches the agent and appends nothing; clear empties the
\* history and the others leave it exactly as it was.
C6_ReservedCommandsHandledLocally ==
    [][ (turns' = turns + 1 /\ turn'.raised = ""
         /\ Lower(Strip(turn'.raw)) \in {"quit", "exit", "bye", "history", "clear", ""}) =>
            /\ inflight' = inflight
            /\ pc' # "dispatching"
            /\ turn'.agent_message = None
            /\ IF Lower(Strip(turn'.raw)) = "clear"
               THEN messages' = <<>>
               ELSE messages' = messages
      ]_vars

C6_Witness ==
    /\ turn.event = "clear"
    /\ turn.raw = "clear "
    /\ messages = <<>>
    /\ now > 0

\* C7: in every step the history is unchanged, extended by exactly one message
\* at its end, or emptied by the clear command; its entries are in the order in
\* which they were appended.
C7_HistoryAppendOnly ==
    /\ [][ \/ messages' = messages
           \/ /\ Len(messages') = Len(messages) + 1
              /\ SubSeq(messages', 1, Len(messages)) = messages
           \/ /\ messages' = <<>>
              /\ turn'.event = "clear"
         ]_vars
    /\ [](\A i \in 1..Len(messages) : \A j \in i..Len(messages) :
              messages[i].timestamp <= messages[j].timestamp)

C7_Witness ==
    /\ Len(messages) >= 2
    /\ messages[1].timestamp > 0

\* C8: get_recent_messages(N), N >= 0, returns exactly the last min(N, L)
\* messages of a history of length L, in their order; N = 0 returns none.
C8_LastNMessages ==
    recent.called =>
        LET L == Len(messages)
            n == IF recent.limit < L THEN recent.limit ELSE L
        IN  recent.result = SubSeq(messages, L - n + 1, L)

\* C9: at most one agent dispatch is in flight; nothing is read and no second
\* dispatch starts while one is pending, and every assistant response is
\* appended right after the user message of its turn, before the next one.
C9_SingleDispatchInFlight ==
    /\ Len(inflight) <= 1
    /\ (pc = "dispatching") <=> (Len(inflight) = 1)
    /\ turn.pending = 0
    /\ pc \in {"dispatching", "printing"} => messages # <<>> /\ messages[Len(messages)].role = "user"
    /\ \A i \in 1..Len(messages) :
           messages[i].role = "assistant" => i > 1 /\ messages[i - 1].role = "user"

C9_Witness ==
    /\ pc = "dispatching"
    /\ Len(inflight) = 1
    /\ Len(messages) >= 3
    /\ messages[Len(messages) - 1].role = "assistant"

\* C10: an input holding an http(s) image URL takes the URL branch, the local
\* path being tried only when there is no such URL; whenever an image is
\* attached, the agent receives the two parts [remaining text or the default
\* prompt, image] and no rendering of the history.
C10_UrlBeforeLocalPath ==
    turn.event = "dispatched" =>
        LET u == turn.user_input
            sent == turn.agent_message[1]
        IN  /\ is_image_url(u) =>
                  /\ turn.branch = "url"
                  /\ turn.has_image
                  /\ LitAt(turn.image_ref, 1, "http")
                  /\ Contains(u, turn.image_ref)
                  /\ sent.parts[2] = ImageUrl(turn.image_ref)
                  /\ sent.parts[1].value =
                        (IF Strip(Replace(u, turn.image_ref, "")) = ""
                         THEN "Please analyze this image:"
                         ELSE Strip(Replace(u, turn.image_ref, "")))
            /\ turn.branch = "local" => ~is_image_url(u)
            /\ turn.has_image =>
                  /\ sent.kind = "parts"
                  /\ sent.text = ""
                  /\ Len(sent.parts) = 2
                  /\ sent.parts[1].kind = "text"
                  /\ sent.parts[1].value # ""
                  /\ ~Contains(sent.parts[1].value, "Recent conversation history")
                  /\ sent.parts[2].kind \in {"ImageUrl", "BinaryContent"}
                  /\ sent.parts[2].value = turn.image_ref

C10_Witness ==
    /\ turn.event = "dispatched"
    /\ turn.user_input = "/tmp/c.png http://h/a.png"
    /\ turn.branch = "url"
    /\ turn.agent_message[1].parts = <<TextPart("/tmp/c.png"), ImageUrl("http://h/a.png")>>

\* C11: when a local image path is detected and the image cannot be loaded
\* (missing, not a regular file, unreadable), load_local_image yields the null
\* result and the turn goes on as a text turn: the agent is contacted with the
\* plain prompt holding the history and the original input, and the user
\* message is recorded with has_image false.
C11_LocalImageLoadFailure ==
    (turn.event = "dispatched" /\ turn.disk \in {"missing", "directory", "unreadable"}) =>
        /\ load_local_image(turn.image_ref, turn.disk) = None
        /\ ~turn.has_image
        /\ pc = "dispatching"
        /\ inflight = <<turn.agent_message[1]>>
        /\ turn.agent_message[1].kind = "prompt"
        /\ turn.agent_message[1].parts = <<>>
        /\ Contains(turn.agent_message[1].text, "Recent conversation history:")
        /\ Contains(turn.agent_message[1].text, "user: " \o turn.user_input)
        /\ Contains(turn.agent_message[1].text, "Current user message: " \o turn.user_input \o "\n")
        /\ messages[Len(messages)].role = "user"
        /\ messages[Len(messages)].content = turn.user_input
        /\ messages[Len(messages)].has_image = FALSE

C11_Witness ==
    /\ turn.event = "dispatched"
    /\ turn.raw = "look /tmp/c.png"
    /\ turn.disk = "directory"
    /\ turn.image_ref = "/tmp/c.png"
    /\ pc = "dispatching"
    /\ turn.agent_message[1].kind = "prompt"

C13_FormulaBeforeElements ==
    (/\ cifCall.outcome \notin {"none", "pending"}
     /\ cifCall.database \in {"mp", "oqmd"}
     /\ cifCall.query = None
     /\ cifCall.formula = Some("NaCoO2")
     /\ cifCall.elements # None
     /\ cifCall.elements[1].type = "list"
     /\ cifCall.elements[1].items # <<>>) =>
        /\ cifCall.filter = Some("chemical_formula_reduced=\"CoNaO2\"")
        /\ Len(cifCall.sent) = 1
        /\ cifCall.sent[1].filter = "chemical_formula_reduced=\"CoNaO2\""

\* C14: a search by formula (a formula, no raw query, no elements) against the
\* database cod raises ModelRetry telling the caller to use elements, whatever
\* the formula is, and sends no query.
C14_CodFormulaRefused ==
    (/\ cifCall.outcome \notin {"none", "pending"}
     /\ cifCall.database = "cod"
     /\ cifCall.formula # None /\ cifCall.formula[1] # ""
     /\ (cifCall.query = None \/ cifCall.query[1] = "")
     /\ (cifCall.elements = None \/ cifCall.elements[1].items = <<>>)) =>
        /\ cifCall.outcome = "ModelRetry"
        /\ cifCall.message = "Use elements rather than formula for cod search"
        /\ cifCall.sent = <<>>
        /\ cifCall.answer = None
        /\ cifCall.result = {}

C14_Witness ==
    /\ cifCall.database = "cod"
    /\ cifCall.formula = Some("Na01")
    /\ cifCall.query = Some("")
    /\ cifCall.elements = Some([type |-> "list", items |-> <<>>])
    /\ cifCall.outcome = "ModelRetry"

\* C15: every returned list is non-empty: an answer of zero structures raises
\* the RuntimeError "No structures found ..." naming the elements, formula and
\* database of the call, whatever kind of filter was sent, and an answer of
\* one or more structures is returned as it is.
C15_EmptyAnswerIsAnError ==
    /\ cifCall.outcome = "returned" =>
          /\ cifCall.result # {}
          /\ cifCall.answer = Some(cifCall.result)
    /\ (cifCall.answer # None /\ cifCall.answer[1] = {}) =>
          /\ cifCall.outcome = "RuntimeError"
          /\ cifCall.result = {}
          /\ StartsWith(cifCall.message, "No structures found for elements=")
          /\ Contains(cifCall.message, "elements=" \o PyReprElements(cifCall.elements) \o ", formula=")
          /\ Contains(cifCall.message, " in database='" \o cifCall.database \o "'.")
          /\ cifCall.kind # "formula" =>
                Contains(cifCall.message, "formula=" \o PyReprOptStr(cifCall.formula) \o " in ")
    /\ (cifCall.answer # None /\ cifCall.answer[1] # {}) => cifCall.outcome = "returned"

C15_Witness ==
    /\ cifCall.kind = "query"
    /\ cifCall.sent # <<>>
    /\ cifCall.answer = Some({})
    /\ cifCall.outcome = "RuntimeError"
    /\ cifCall.message = "No structures found for elements=None, formula=None in database='oqmd'."

\* C16: a database name other than cod, mp and oqmd raises the RuntimeError at
\* once, whatever the other arguments: no client is created, no filter is
\* built and no query is sent; each of the three names is accepted, and a query
\* only ever goes to the endpoint of the database named.
C16_DatabaseAllowList ==
    cifCall.outcome \notin {"none", "pending"} =>
        /\ cifCall.database \notin {"cod", "mp", "oqmd"} =>
              /\ cifCall.outcome = "RuntimeError"
              /\ cifCall.message = "Unknown database '" \o cifCall.database
                                       \o "'. Must be one of 'cod', 'mp', or 'oqmd'."
              /\ cifCall.client = None
              /\ cifCall.kind = ""
              /\ cifCall.filter = None
              /\ cifCall.sent = <<>>
        /\ cifCall.database \in {"cod", "mp", "oqmd"} =>
              /\ ~StartsWith(cifCall.message, "Unknown database")
              /\ cifCall.client =
                    Some(CASE cifCall.database = "cod" -> "https://www.crystallography.net/cod/optimade/"
                           [] cifCall.database = "mp" -> "https://optimade.materialsproject.org"
                           [] cifCall.database = "oqmd" -> "https://oqmd.org/optimade")
        /\ \A k \in 1..Len(cifCall.sent) : Some(cifCall.sent[k].endpoint) = cifCall.client

C16_Witness ==
    /\ cifCall.database = "nomad"
    /\ cifCall.query = Some("nelements=2")
    /\ cifCall.elements = Some([type |-> "list", items |-> <<"Sb">>])
    /\ cifCall.outcome = "RuntimeError"
    /\ cifCall.sent = <<>>

\* C17: for a list of one element the filter is elements HAS "<el>" AND
\* elements LENGTH 1; for a list of N >= 2 it is elements HAS ALL
\* "<e1>","<e2>",... AND elements LENGTH N, the elements quoted in the order
\* given, repeated and unknown symbols kept.
C17_ElementsFilterText ==
    (cifCall.kind = "elements" /\ cifCall.elements[1].type = "list"
     /\ cifCall.outcome \notin {"none", "pending"}) =>
        LET items == cifCall.elements[1].items
            N == Len(items)
            RECURSIVE Quoted(_)
            Quoted(k) == IF k = 1 THEN "\"" \o items[1] \o "\""
                         ELSE Quoted(k - 1) \o ",\"" \o items[k] \o "\""
        IN  /\ N >= 1
            /\ cifCall.filter # None
            /\ N = 1 => cifCall.filter[1] = "elements HAS \"" \o items[1] \o "\" AND elements LENGTH 1"
            /\ N >= 2 => cifCall.filter[1] = "elements HAS ALL " \o Quoted(N)
                                                \o " AND elements LENGTH " \o SubSeq("123456789", N, N)

C17_Witness ==
    /\ cifCall.elements = Some([type |-> "list", items |-> <<"Sb", "X", "Sb">>])
    /\ cifCall.query = None
    /\ cifCall.filter = Some("elements HAS ALL \"Sb\",\"X\",\"Sb\" AND elements LENGTH 3")

\* C18: the element filter is an exclusive match: for every non-empty element
\* list, the structures that satisfy it are exactly those whose element set is
\* the set of the listed elements.
C18_ElementsFilterExclusive ==
    (cifCall.kind = "elements" /\ cifCall.answer # None) =>
        cifCall.answer[1] =
            {structure \in cifCall.content[1] :
                structure = {cifCall.elements[1].items[k] :
                                k \in 1..Len(cifCall.elements[1].items)}}

\* C19: sanitizing is idempotent: for a formula of element symbols each followed
\* by a digit string or by nothing, sanitizing the sanitized formula gives the
\* sanitized formula.
C19_SanitizeIdempotent ==
    sanitized.applied => sanitized.twice = sanitized.once

\* C20: sanitizing is order-independent and canonical: two formulas of the same
\* (element, count) pairs in different orders, a count of one written or left
\* out, sanitize to the same string, whose pairs are sorted by element symbol
\* and in which an absent or unit count has no suffix.
C20_SanitizeCanonical ==
    sanitized.applied =>
        /\ sanitized.other = sanitized.once
        /\ sanitized.once =
              JoinPairs(SortedPairs([k \in 1..Len(sanitized.tokens) |->
                  <<sanitized.tokens[k][1],
                    IF sanitized.tokens[k][2] = "" \/ PyStrInt(sanitized.tokens[k][2]) = "1"
                    THEN "" ELSE PyStrInt(sanitized.tokens[k][2])>>]))

\* C21: a run_topas_refinement call that returns a result carries a plot result
\* exactly when the results table <input>_output.txt exists, and the plotting
\* layer is never invoked after a timeout or after a non-zero exit code.
C21_PlotOnlyAfterSuccessWithTable ==
    /\ runCall.outcome = "returned" =>
          (runCall.result[1].plot_results # None
             <=> isfile(fs, Replace(runCall.inp_path, ".inp", "_output.txt")))
    /\ (runCall.proc = "TimeoutExpired" \/ (runCall.proc = "exited" /\ runCall.returncode # 0))
          => ~runCall.plot_invoked

\* C22: when the image that a plot function has just saved cannot be loaded
\* back (it is missing or unreadable), the function does not raise: it returns
\* a plot result that carries the output path and a null image.
C22_UnloadableImageGivesNullPayload ==
    (/\ plotCall.fn \in {"single", "multi"}
     /\ plotCall.saved \in {"missing", "unreadable"}
     /\ plotCall.error \notin {"FileNotFoundError", "ValueError"}) =>
        /\ plotCall.outcome = "returned"
        /\ plotCall.result # None
        /\ plotCall.result[1].output_filepath = plotCall.save_path
        /\ plotCall.result[1].output_image = None

\* C23: in every plot that was drawn and saved, each panel restricted to an
\* angle range (the single panel called with x_range, panels 2 to 4 of the
\* multi-panel plot) has 1.1 times the largest observed or calculated intensity
\* of the points inside the range as the upper limit of its main axis, with or
\* without reflection ticks and labels.
C23_RangeRescalesIntensityLimit ==
    (/\ plotCall.fn \in {"single", "multi"}
     /\ plotCall.saved # "unwritable"
     /\ plotCall.error \notin {"FileNotFoundError", "ValueError"}) =>
        \A i \in DOMAIN plotCall.panels :
            LET panel == plotCall.panels[i]
                df == plotFiles[OutputFile]
                inside == {k \in DOMAIN df : panel.window[1] <= df[k].x
                                                /\ df[k].x <= panel.window[2]}
                highest == CHOOSE y \in {df[k].yobs : k \in inside}
                                            \cup {df[k].ycalc : k \in inside} :
                               \A k \in inside : df[k].yobs <= y /\ df[k].ycalc <= y
            IN  (IF plotCall.fn = "single" THEN plotCall.x_range # None ELSE i > 1) =>
                    10 * panel.ylim[2] = 11 * highest

\* C24: in every panel the labels drawn are those of the reflections inside the
\* visible window, in increasing angle order; the first sits at its angle, and
\* each later label is at least the minimum spacing (2% of the visible angle
\* range) right of the label before it: it sits at its own angle unless that
\* is closer, and then exactly at the previous label plus the minimum spacing.
C24_LabelSpacing ==
    \A i \in DOMAIN plotCall.panels :
        LET panel == plotCall.panels[i]
            labels == panel.labels
            hkl_df == plotFiles[HklFile]
            visible == {k \in DOMAIN hkl_df : panel.window[1] <= hkl_df[k].two_theta
                                                 /\ hkl_df[k].two_theta <= panel.window[2]}
        IN  /\ 50 * panel.min_label_dx = panel.window[2] - panel.window[1]
            /\ Len(labels) = IF plotCall.hkl_file = None THEN 0 ELSE Cardinality(visible)
            /\ \A tt \in {hkl_df[k].two_theta : k \in visible} :
                  plotCall.hkl_file # None =>
                      Cardinality({k \in visible : hkl_df[k].two_theta = tt})
                          = Cardinality({k \in DOMAIN labels : labels[k].tt = tt})
            /\ labels # <<>> => labels[1].label_x = labels[1].tt
            /\ \A k \in 1..(Len(labels) - 1) :
                  /\ labels[k].tt <= labels[k + 1].tt
                  /\ labels[k + 1].label_x >= labels[k].label_x + panel.min_label_dx
                  /\ IF labels[k + 1].tt - labels[k].label_x < panel.min_label_dx
                     THEN labels[k + 1].label_x = labels[k].label_x + panel.min_label_dx
                     ELSE labels[k + 1].label_x = labels[k + 1].tt

C24_Witness ==
    /\ plotCall.outcome = "returned"
    /\ \E i \in DOMAIN plotCall.panels :
          LET labels == plotCall.panels[i].labels
          IN  /\ Len(labels) = 3
              /\ labels[2].label_x = labels[2].tt
              /\ labels[3].label_x # labels[3].tt
              /\ labels[3].tt > labels[2].tt

\* C29: figures are scoped per plot call: after any sequence of calls of the
\* two plot functions, returned or failed part-way, no figure that a finished
\* call created is still open.
C29_NoFigureLeftOpen ==
    figures = 0

\* C25: after a successful get_optimade_cifs call the directory cifs/ exists and
\* holds one CIF file per returned structure, each named <database>-<id>.cif.
C25_OneCifFilePerStructure ==
    cifCall.outcome = "returned" =>
        /\ "cifs" \in dirs
        /\ Cardinality({path \in DOMAIN fs :
                           /\ StartsWith(path, "cifs/" \o cifCall.database \o "-")
                           /\ EndsWith(path, ".cif")})
              = Cardinality(cifCall.result)

\* C26: every accepted save_topas_inp call changes no file but the one whose
\* path it returns, that file holds the content, and it lies inside run_dir
\* whatever the filename argument is (directory parts and ".." included).
C26_SavedInsideRunDir ==
    [][saveCall'.outcome = "returned" =>
          /\ {q \in DOMAIN fs' : q \notin DOMAIN fs \/ fs'[q] # fs[q]}
                \subseteq {saveCall'.inp_path}
          /\ isfile(fs', saveCall'.inp_path)
          /\ fs'[saveCall'.inp_path] = saveCall'.inp_text
          /\ StartsWith(resolve(saveCall'.inp_path), RUN_DIR \o Sep)]_vars

\* C28: for an input path that ends in .inp, the three paths that
\* run_topas_refinement probes are the input path with its final .inp replaced
\* by .out, _output.txt and _hkl.txt, the rest of the path unchanged, and none
\* of them is the input path.
C28_ProbesBySuffixSubstitution ==
    (runCall.probed # <<>> /\ EndsWith(runCall.inp_path, ".inp")) =>
        LET stem == SubSeq(runCall.inp_path, 1, Len(runCall.inp_path) - 4)
        IN  /\ runCall.probed = <<stem \o ".out", stem \o "_output.txt", stem \o "_hkl.txt">>
            /\ \A i \in 1..3 : runCall.probed[i] # runCall.inp_path

\* C27: when a text-only turn is dispatched, the prompt is the user's text
\* behind the rendering of the last five entries of the stored history (all of
\* them when there are fewer), oldest first, one "role: content" line per
\* entry (marked when the entry carried an image); the last entry rendered is
\* the current user message, so at most four entries are from earlier turns.
C27_PromptHistoryWindow ==
    (turn.event = "dispatched" /\ ~turn.has_image) =>
        LET n == Len(messages)
            first == IF n > 5 THEN n - 4 ELSE 1
            line(m) == m.role \o ": " \o m.content
                       \o (IF m.has_image THEN " [included an image]" ELSE "")
            rendering == JoinLines([i \in 1..(n - first + 1) |-> line(messages[first + i - 1])])
        IN  /\ n >= 1
            /\ messages[n].role = "user"
            /\ messages[n].content = turn.user_input
            /\ n - first <= 4
            /\ turn.agent_message # None
            /\ turn.agent_message[1].kind = "prompt"
            /\ turn.agent_message[1].text = full_prompt(rendering, turn.user_input)

\* a text-only turn dispatched on a history of more than five entries, one of
\* the entries rendered being an earlier turn that carried an image
C27_Witness ==
    /\ turn.event = "dispatched"
    /\ ~turn.has_image
    /\ Len(messages) > 5
    /\ \E i \in (Len(messages) - 4)..(Len(messages) - 1) : messages[i].has_image

====
